---- MODULE Spec2Model ----
(***************************************************************************)
(* The generic Fibonacci heap of src/src/lib.rs (FibonacciHeap<T>) as a    *)
(* state machine.  Nodes are reference-counted cells; a node is named by   *)
(* its address, the index of its record in `nodes`.  Two heap objects      *)
(* exist: heap 1 (`self`) and heap 2 (the `other` that merge consumes).    *)
(*                                                                         *)
(* Spec        any calls on heap 1, heap 2 built by inserts and merged in  *)
(* SpecNoClear the same without clear                                      *)
(* SpecSort    keys inserted into an empty heap, which is then drained     *)
(* SpecTies    the same with equal keys                                    *)
(* SpecMerge   two heaps built, merged and drained                         *)
(* SpecScript  the call sequences of the crate's documentation and tests   *)
(* SpecI32      any calls on a heap of the i32 implementation, src/lib.rs  *)
(* SpecI32Merge the same with a second heap that is merged in              *)
(***************************************************************************)
EXTENDS Integers, Sequences, FiniteSets, TLC

\* ------------------------------------------------------------------ bounds
MaxNodes == 3      \* nodes allocated by insert over a whole run of Spec
MaxKey   == 2      \* keys are 1..MaxKey
MaxWrap  == 1      \* extract_min calls allowed at a node_count below 1
MaxLen   == 8      \* keys inserted over a whole run of SpecSort and SpecMerge

Keys  == 1..MaxKey
Heaps == {1, 2}

\* Option::None for `min` and `parent` (addresses start at 1)
None == 0

VARIABLES
    nodes,            \* address -> Node { key, degree, marked, parent, children, id }
    heaps,            \* 1..2 -> FibonacciHeap { min, root_list, node_count, next_id, active_nodes }
    panic,            \* "none", or the panic the thread has died of
    overflow_checks,  \* build profile: arithmetic overflow panics ("on") or wraps
                      \* ("off"); "any" until the run has met an overflow
    handle,           \* per address: the heap that holds the node and what became of it
    phase,            \* where the calling program is (SpecSort, SpecMerge, SpecScript)
    input,            \* what the calling program put in: keys, or its script of calls
    out               \* the results the calling program has collected

vars == <<nodes, heaps, panic, overflow_checks, handle, phase, input, out>>

\* ------------------------------------------------------------ sequences
Range(s) == {s[i] : i \in 1..Len(s)}

\* Vec::retain(|x| !Rc::ptr_eq(x, n))
Retain(s, n) == SelectSeq(s, LAMBDA x : x # n)

\* HashMap<usize, Weak<..>> as the set of its entries <<key, value>>
MapKeys(m) == {e[1] : e \in m}

\* HashMap::contains_key
ContainsKey(m, k) == k \in MapKeys(m)

\* HashMap::remove
MapRemove(m, k) == {e \in m : e[1] # k}

\* HashMap::insert: the new entry replaces one with the same key
MapInsert(m, k, v) == MapRemove(m, k) \cup {<<k, v>>}

\* HashMap::extend: entries of `b` replace entries of `a` with the same key
MapExtend(a, b) == {e \in a : e[1] \notin MapKeys(b)} \cup b

EmptyMap == {}

\* Node::new
NewNode(key, id) ==
    [key |-> key, degree |-> 0, marked |-> FALSE, parent |-> None,
     children |-> <<>>, id |-> id]

\* FibonacciHeap::new
NewHeap ==
    [min |-> None, root_list |-> <<>>, node_count |-> 0, next_id |-> 0,
     active_nodes |-> EmptyMap]

\* The store an operation works on: the node cells, the two heaps, whether
\* the thread has panicked, and the build profile (`checks`).
NoPanic == "none"
Borrow   == "already borrowed: BorrowMutError"
Overflow == "attempt to add or subtract with overflow"
Index    == "index out of bounds"

Panic(S, why) == [S EXCEPT !.panic = why]

Panicked(S) == S.panic # NoPanic

\* usize values are held as their two's-complement representative: -1 is
\* 2^64 - 1.  `x -= 1` at 0 panics when overflow checks are on and wraps
\* otherwise; `x += 1` at 2^64 - 1 likewise.
SubOverflows(v) == v = 0
AddOverflows(v) == v = -1

SumOverflows(a, b) ==
    \/ a < 0 /\ b < 0
    \/ a < 0 /\ b > 0 /\ a + b >= 0
    \/ b < 0 /\ a > 0 /\ a + b >= 0

\* (n as f64).log2() as usize: floor(log2 n) for the small positive n, 0 for
\* n = 0 (-inf saturates to 0) and 64 for a wrapped count (2^64 - k rounds
\* to 2^64 as f64).
RECURSIVE FloorLog2(_)
FloorLog2(n) == IF n <= 1 THEN 0 ELSE 1 + FloorLog2(n \div 2)

Log2AsUsize(n) == IF n < 0 THEN 64 ELSE FloorLog2(n)

\* ------------------------------------------------------------- insert
\* An insert that always makes the new node the min
InsertOpTakesMin(S, hp, key) ==
    LET node == Len(S.nodes) + 1 IN
    [S |-> [S EXCEPT !.nodes = Append(@, NewNode(key, S.heaps[hp].next_id)),
                     !.heaps[hp].next_id = @ + 1,
                     !.heaps[hp].active_nodes = MapInsert(@, S.heaps[hp].next_id, node),
                     !.heaps[hp].root_list = Append(@, node),
                     !.heaps[hp].node_count = @ + 1,
                     !.heaps[hp].min = node],
     res |-> "Ok", val |-> node]

\* FibonacciHeap::insert: returns Ok(node)
InsertOp(S, hp, key) ==
    LET h    == S.heaps[hp]
        id   == h.next_id
        node == Len(S.nodes) + 1
        S1   == [S EXCEPT !.nodes = Append(@, NewNode(key, id)),
                          !.heaps[hp].next_id = id + 1,
                          !.heaps[hp].active_nodes = MapInsert(@, id, node),
                          !.heaps[hp].root_list = Append(@, node)]
    IN  IF AddOverflows(h.node_count) /\ S.checks
        THEN [S |-> Panic(S1, Overflow), res |-> "panic", val |-> None]
        ELSE LET S2 == [S1 EXCEPT !.heaps[hp].node_count = @ + 1]
                 S3 == IF h.min = None
                       THEN [S2 EXCEPT !.heaps[hp].min = node]
                       ELSE IF key < S2.nodes[h.min].key
                            THEN [S2 EXCEPT !.heaps[hp].min = node]
                            ELSE S2
             IN  [S |-> S3, res |-> "Ok", val |-> node]

\* -------------------------------------------------------------- merge
\* A merge that joins the root lists and never looks at the minimum of `other`
MergeOpKeepsMin(S, hp, o) ==
    [S |-> [S EXCEPT !.heaps[hp].root_list = @ \o S.heaps[o].root_list,
                     !.heaps[o] = NewHeap],
     res |-> "unit", val |-> None]

\* FibonacciHeap::merge: self is heap `hp`, `other` is heap `o`, which is
\* moved into the call; the caller's next heap of that name is a new one.
MergeOp(S, hp, o) ==
    LET h  == S.heaps[hp]
        ot == S.heaps[o]
        S1 == [S EXCEPT !.heaps[hp].root_list = @ \o ot.root_list]
    IN  IF SumOverflows(h.node_count, ot.node_count) /\ S.checks
        THEN [S |-> Panic(S1, Overflow), res |-> "panic", val |-> None]
        ELSE LET S2 == [S1 EXCEPT !.heaps[hp].node_count = @ + ot.node_count,
                                  !.heaps[hp].active_nodes = MapExtend(@, ot.active_nodes)]
                 S3 == IF ot.min = None THEN S2
                       ELSE IF h.min = None
                            THEN [S2 EXCEPT !.heaps[hp].min = ot.min]
                            ELSE IF S2.nodes[ot.min].key < S2.nodes[h.min].key
                                 THEN [S2 EXCEPT !.heaps[hp].min = ot.min]
                                 ELSE S2
             IN  [S |-> [S3 EXCEPT !.heaps[o] = NewHeap], res |-> "unit", val |-> None]

\* --------------------------------------------------------------- link
\* A link that also makes `child` the parent of `parent`
LinkBothWays(S, hp, child, parent) ==
    [S EXCEPT !.heaps[hp].root_list = Retain(@, child),
              !.nodes[child].parent = parent,
              !.nodes[child].marked = FALSE,
              !.nodes[parent].parent = child,
              !.nodes[parent].children = Append(@, child),
              !.nodes[parent].degree = @ + 1]

\* A link the wrong way round: `parent` becomes a child of `child`
LinkUnderChild(S, hp, child, parent) ==
    [S EXCEPT !.heaps[hp].root_list = Retain(@, parent),
              !.nodes[parent].parent = child,
              !.nodes[parent].marked = FALSE,
              !.nodes[child].children = Append(@, parent),
              !.nodes[child].degree = @ + 1]

\* FibonacciHeap::link(child, parent)
Link(S, hp, child, parent) ==
    LET S1 == [S EXCEPT !.heaps[hp].root_list = Retain(@, child)]
        S2 == [S1 EXCEPT !.nodes[child].parent = parent]
        S3 == [S2 EXCEPT !.nodes[child].marked = FALSE]
        S4 == [S3 EXCEPT !.nodes[parent].children = Append(@, child)]
    IN  [S4 EXCEPT !.nodes[parent].degree = @ + 1]

\* -------------------------------------------------------- consolidate
\* degree_table[d] is table[d + 1]
\* vec![None; n]
RECURSIVE NoneSeq(_)
NoneSeq(n) == IF n <= 0 THEN <<>> ELSE Append(NoneSeq(n - 1), None)

\* Vec::resize(n, None)
TableResize(table, n) ==
    IF n <= Len(table) THEN SubSeq(table, 1, n)
    ELSE table \o NoneSeq(n - Len(table))

\* vec.into_iter().flatten().collect()
RECURSIVE Flatten(_)
Flatten(table) ==
    IF table = <<>> THEN <<>>
    ELSE IF Head(table) = None THEN Flatten(Tail(table))
         ELSE <<Head(table)>> \o Flatten(Tail(table))

\* The `while let Some(existing) = degree_table[degree].take()` loop for one
\* root, followed by `degree_table[degree] = Some(current)`.  C carries the
\* store, the table and `current`; `oob` records an index out of bounds.
RECURSIVE LinkLoop(_, _)
LinkLoop(C, hp) ==
    LET degree == C.S.nodes[C.current].degree IN
    IF degree < 0 \/ degree >= Len(C.table)
    THEN [C EXCEPT !.oob = TRUE]
    ELSE LET existing == C.table[degree + 1] IN
         IF existing = None
         THEN [C EXCEPT !.table[degree + 1] = C.current]
         ELSE LET taken == [C.table EXCEPT ![degree + 1] = None]
                  curLess == C.S.nodes[C.current].key < C.S.nodes[existing].key
                  S1  == IF curLess THEN Link(C.S, hp, existing, C.current)
                                    ELSE Link(C.S, hp, C.current, existing)
                  cur == IF curLess THEN C.current ELSE existing
                  d1  == S1.nodes[cur].degree
                  t1  == IF d1 >= Len(taken) THEN TableResize(taken, d1 + 1) ELSE taken
              IN  LinkLoop([C EXCEPT !.S = S1, !.table = t1, !.current = cur], hp)

\* The `match &new_min` that ends the body of the `for root in roots` loop
NewMin(C) ==
    IF C.oob THEN C
    ELSE IF C.new_min = None
         THEN [C EXCEPT !.new_min = C.current]
         ELSE IF C.S.nodes[C.current].key < C.S.nodes[C.new_min].key
              THEN [C EXCEPT !.new_min = C.current]
              ELSE C

\* The `for root in roots` loop of consolidate, from root number i on
RECURSIVE ConsolidateRoots(_, _, _, _)
ConsolidateRoots(C, hp, roots, i) ==
    IF i > Len(roots) \/ C.oob THEN C
    ELSE ConsolidateRoots(NewMin(LinkLoop([C EXCEPT !.current = roots[i]], hp)),
                          hp, roots, i + 1)

\* The end of consolidate: the table becomes the root list
Consolidated(C, hp) ==
    IF C.oob THEN Panic(C.S, Index)
    ELSE [C.S EXCEPT !.heaps[hp].root_list = Flatten(C.table),
                     !.heaps[hp].min = C.new_min]

\* A consolidate that links nothing: the roots stay as they are and the
\* first of them becomes `min`
ConsolidateLinksNothing(S, hp) == [S EXCEPT !.heaps[hp].min = Head(S.heaps[hp].root_list)]

\* FibonacciHeap::consolidate
Consolidate(S, hp) ==
    LET max_degree == Log2AsUsize(S.heaps[hp].node_count) + 2
        C0 == [S |-> [S EXCEPT !.heaps[hp].root_list = <<>>],
               table |-> NoneSeq(max_degree),
               new_min |-> None, current |-> None, oob |-> FALSE]
    IN  Consolidated(ConsolidateRoots(C0, hp, S.heaps[hp].root_list, 1), hp)

\* -------------------------------------------------------- extract_min
\* `for child in children { child.parent = None; root_list.push(child) }`
RECURSIVE PromoteChildren(_, _, _)
PromoteChildren(S, hp, children) ==
    IF children = <<>> THEN S
    ELSE LET child == Head(children)
             S1 == [S EXCEPT !.nodes[child].parent = None]
             S2 == [S1 EXCEPT !.heaps[hp].root_list = Append(@, child)]
         IN  PromoteChildren(S2, hp, Tail(children))

\* `if self.root_list.is_empty() { self.min = None } else { self.consolidate() }`
NewRoots(S, hp) ==
    IF S.heaps[hp].root_list = <<>>
    THEN [S EXCEPT !.heaps[hp].min = None]
    ELSE Consolidate(S, hp)

\* The outcome of a call that ends in store S: the value it returns, unless
\* it panicked on the way
Returned(S, res, val) ==
    IF Panicked(S) THEN [S |-> S, res |-> "panic", val |-> None]
    ELSE [S |-> S, res |-> res, val |-> val]

\* An extract_min that takes a node off the count before it looks for one
ExtractMinOpCountsFirst(S, hp) ==
    [S |-> [S EXCEPT !.heaps[hp].node_count = @ - 1], res |-> "None", val |-> None]

\* FibonacciHeap::extract_min: None, or Some(key of the min node)
ExtractMinOp(S, hp) ==
    LET h == S.heaps[hp] IN
    IF h.min = None THEN [S |-> S, res |-> "None", val |-> None]
    ELSE LET min_node == h.min
             min_key  == S.nodes[min_node].key
             min_id   == S.nodes[min_node].id
             children == S.nodes[min_node].children
             S1 == [S EXCEPT !.heaps[hp].min = None,
                             !.heaps[hp].active_nodes = MapRemove(@, min_id),
                             !.nodes[min_node].children = <<>>]
             S2 == PromoteChildren(S1, hp, children)
             S3 == [S2 EXCEPT !.heaps[hp].root_list = Retain(@, min_node)]
         IN  IF SubOverflows(h.node_count) /\ S.checks
             THEN [S |-> Panic(S3, Overflow), res |-> "panic", val |-> None]
             ELSE Returned(NewRoots([S3 EXCEPT !.heaps[hp].node_count = @ - 1], hp),
                           "Some", min_key)

\* ------------------------------------------------ cut, cascading_cut
\* `borrowed` is the set of node cells on which a caller still holds a
\* shared RefCell borrow (a `Ref` temporary of an enclosing `if let`
\* scrutinee lives to the end of that `if let`); borrow_mut() on such a
\* cell panics with BorrowMutError.

\* FibonacciHeap::cut(node, parent)
Cut(S, hp, node, parent, borrowed) ==
    IF parent \in borrowed THEN Panic(S, Borrow)
    ELSE LET S1 == [S EXCEPT !.nodes[parent].children = Retain(@, node)] IN
         IF SubOverflows(S1.nodes[parent].degree) /\ S.checks THEN Panic(S1, Overflow)
         ELSE LET S2 == [S1 EXCEPT !.nodes[parent].degree = @ - 1] IN
              IF node \in borrowed THEN Panic(S2, Borrow)
              ELSE [S2 EXCEPT !.nodes[node].parent = None,
                              !.nodes[node].marked = FALSE,
                              !.heaps[hp].root_list = Append(@, node)]

\* FibonacciHeap::cascading_cut(node): `&node.borrow().parent` is the
\* scrutinee of the `if let`, so `node` stays borrowed throughout its body.
\* It is not called when the cut before it panicked.
RECURSIVE CascadingCut(_, _, _, _)
CascadingCut(S, hp, node, borrowed) ==
    LET parent == S.nodes[node].parent
        held   == borrowed \cup {node}
    IN  IF Panicked(S) \/ parent = None THEN S
        ELSE IF ~S.nodes[node].marked
             THEN IF node \in held THEN Panic(S, Borrow)
                  ELSE [S EXCEPT !.nodes[node].marked = TRUE]
             ELSE CascadingCut(Cut(S, hp, node, parent, held), hp, parent, held)

\* ------------------------------------------------------- decrease_key
\* The body of `if let Some(parent_weak) = &node.borrow().parent`: the handle
\* keeps every node alive, so the Weak parent always upgrades.
CutIfViolated(S, hp, node, new_key) ==
    LET parent == S.nodes[node].parent
        held   == {node}
    IN  IF parent = None THEN S
        ELSE IF new_key < S.nodes[parent].key
             THEN CascadingCut(Cut(S, hp, node, parent, held), hp, parent, held)
             ELSE S

\* An end of decrease_key that marks the node it makes the min
UpdateMinMarks(S, hp, node, new_key) ==
    [S EXCEPT !.heaps[hp].min = node, !.nodes[node].marked = TRUE]

\* `if new_key < min.key { self.min = Some(node) }` at the end of decrease_key
UpdateMin(S, hp, node, new_key) ==
    IF Panicked(S) THEN S
    ELSE IF S.heaps[hp].min = None THEN [S EXCEPT !.heaps[hp].min = node]
    ELSE IF new_key < S.nodes[S.heaps[hp].min].key
         THEN [S EXCEPT !.heaps[hp].min = node]
         ELSE S

\* FibonacciHeap::decrease_key(node, new_key)
DecreaseKeyOp(S, hp, node, new_key) ==
    LET h == S.heaps[hp]
        node_id == S.nodes[node].id
    IN  IF ~ContainsKey(h.active_nodes, node_id)
        THEN [S |-> S, res |-> "NodeNotFound", val |-> None]
        ELSE IF new_key > S.nodes[node].key
        THEN [S |-> S, res |-> "InvalidKey", val |-> None]
        ELSE Returned(UpdateMin(CutIfViolated([S EXCEPT !.nodes[node].key = new_key],
                                              hp, node, new_key),
                                hp, node, new_key),
                      "Ok", None)

\* ------------------------------------------------------ the observers
\* FibonacciHeap::peek_min: None, or the key of `min`
PeekMin(S, hp) ==
    IF S.heaps[hp].min = None THEN [res |-> "None", val |-> None]
    ELSE [res |-> "Some", val |-> S.nodes[S.heaps[hp].min].key]

\* FibonacciHeap::is_empty
IsEmpty(S, hp) == S.heaps[hp].root_list = <<>>

\* FibonacciHeap::len
HeapLen(S, hp) == S.heaps[hp].node_count

\* FibonacciHeap::clear
ClearOp(S, hp) ==
    [S |-> [S EXCEPT !.heaps[hp] = NewHeap], res |-> "unit", val |-> None]

\* ----------------------------------------------------- the state machine
\* The store held in the variables, built with overflow checks `oc`
Cur(oc) == [nodes |-> nodes, heaps |-> heaps, panic |-> panic, checks |-> oc]

\* The build profiles the run so far is consistent with
Profiles == IF overflow_checks = "any" THEN BOOLEAN ELSE {overflow_checks = "on"}

\* Store the outcome R of a call in the variables.  `other` is the outcome
\* under the opposite build profile: the call reveals the profile when the
\* two differ.
Commit(R, other) ==
    /\ nodes' = R.S.nodes
    /\ heaps' = R.S.heaps
    /\ panic' = R.S.panic
    /\ overflow_checks' = IF R.res # other.res \/ R.S.heaps # other.S.heaps
                          THEN (IF R.S.checks THEN "on" ELSE "off")
                          ELSE overflow_checks

\* What became of the nodes the caller holds handles to
Issued(hp) == Append(handle, [heap |-> hp, status |-> "live"])

Extracted(R, node) ==
    IF R.res = "Some" THEN [handle EXCEPT ![node].status = "extracted"] ELSE handle

RECURSIVE MovedFrom(_, _, _)
MovedFrom(hs, hp, o) ==
    IF hs = <<>> THEN <<>>
    ELSE <<IF Head(hs).heap = o THEN [Head(hs) EXCEPT !.heap = hp] ELSE Head(hs)>>
         \o MovedFrom(Tail(hs), hp, o)

Moved(hp, o) == MovedFrom(handle, hp, o)

RECURSIVE ClearedOf(_, _)
ClearedOf(hs, hp) ==
    IF hs = <<>> THEN <<>>
    ELSE <<IF Head(hs).heap = hp /\ Head(hs).status = "live"
           THEN [Head(hs) EXCEPT !.status = "cleared"] ELSE Head(hs)>>
         \o ClearedOf(Tail(hs), hp)

Cleared(hp) == ClearedOf(handle, hp)

\* The handles of heap hp by what became of their node
Handles(hp, status) ==
    {n \in DOMAIN handle : handle[n].heap = hp /\ handle[n].status = status}

CommitExtracted(R, other, node) ==
    /\ Commit(R, other)
    /\ handle' = Extracted(R, node)

Init ==
    /\ nodes = <<>>
    /\ heaps = <<NewHeap, NewHeap>>
    /\ panic = NoPanic
    /\ overflow_checks = "any"
    /\ handle = <<>>
    /\ phase = "free"
    /\ input = <<>>
    /\ out = <<>>

\* heap.insert(key), the handle it returns being kept
InsertCall(hp, key) ==
    /\ panic = NoPanic
    /\ \E oc \in Profiles :
         Commit(InsertOp(Cur(oc), hp, key), InsertOp(Cur(~oc), hp, key))
    /\ handle' = Issued(hp)

Insert(hp, key) ==
    /\ Len(nodes) < MaxNodes
    /\ InsertCall(hp, key)
    /\ UNCHANGED <<phase, input, out>>

\* heap.extract_min()
ExtractMin(hp) ==
    /\ panic = NoPanic
    /\ heaps[hp].node_count > 0 - MaxWrap
    /\ \E oc \in Profiles :
         CommitExtracted(ExtractMinOp(Cur(oc), hp), ExtractMinOp(Cur(~oc), hp),
                         heaps[hp].min)
    /\ UNCHANGED <<phase, input, out>>

\* heap.decrease_key(&handle, key) with a handle this heap issued
DecreaseKey(hp, node, key) ==
    /\ panic = NoPanic
    /\ node \in DOMAIN nodes
    /\ handle[node].heap = hp
    /\ \E oc \in Profiles :
         Commit(DecreaseKeyOp(Cur(oc), hp, node, key),
                DecreaseKeyOp(Cur(~oc), hp, node, key))
    /\ UNCHANGED <<handle, phase, input, out>>

\* heap1.merge(heap2)
Merge ==
    /\ panic = NoPanic
    /\ \E oc \in Profiles :
         Commit(MergeOp(Cur(oc), 1, 2), MergeOp(Cur(~oc), 1, 2))
    /\ handle' = Moved(1, 2)
    /\ UNCHANGED <<phase, input, out>>

\* heap.clear()
Clear(hp) ==
    /\ panic = NoPanic
    /\ Commit(ClearOp(Cur(FALSE), hp), ClearOp(Cur(FALSE), hp))
    /\ handle' = Cleared(hp)
    /\ UNCHANGED <<phase, input, out>>

\* The construction of `other` (heap 2) and its merge into heap 1 are not
\* interleaved with calls on heap 1: the two heaps share no state until the
\* merge, so every interleaving has the same outcome as this order.
Building == heaps[2].root_list # <<>>

Free == phase = "free" /\ ~Building

InsertSelf == \E key \in Keys : Free /\ Insert(1, key)

InsertOther == \E key \in Keys : phase = "free" /\ Insert(2, key)

ExtractMinSelf == Free /\ ExtractMin(1)

DecreaseKeySelf ==
    \E node \in 1..MaxNodes, key \in Keys : Free /\ DecreaseKey(1, node, key)

MergeOther == phase = "free" /\ Merge

ClearSelf == Free /\ Clear(1)

Next ==
    \/ InsertSelf
    \/ InsertOther
    \/ ExtractMinSelf
    \/ DecreaseKeySelf
    \/ MergeOther
    \/ ClearSelf

Spec == Init /\ [][Next]_vars

\* The same calls without clear
NextNoClear ==
    \/ InsertSelf
    \/ InsertOther
    \/ ExtractMinSelf
    \/ DecreaseKeySelf
    \/ MergeOther

SpecNoClear == Init /\ [][NextNoClear]_vars

\* ------------------------------------------------- insert all, extract all
\* Keys are inserted into an empty heap (`input` records them in order), and
\* then extract_min is called until it returns None (`out` records what the
\* calls return).
\* The value a call returned
Result(R) == [res |-> R.res, val |-> R.val]

Some(key) == [res |-> "Some", val |-> key]

CommitDrained(R, other, node) ==
    /\ CommitExtracted(R, other, node)
    /\ out' = Append(out, Result(R))
    /\ phase' = IF R.res = "None" THEN "done" ELSE "drain"

\* extract_min, its result recorded, until it has returned None
Drain ==
    /\ panic = NoPanic
    /\ \E oc \in Profiles :
         CommitDrained(ExtractMinOp(Cur(oc), 1), ExtractMinOp(Cur(~oc), 1), heaps[1].min)
    /\ UNCHANGED input

InitSort ==
    /\ nodes = <<>>
    /\ heaps = <<NewHeap, NewHeap>>
    /\ panic = NoPanic
    /\ overflow_checks = "any"
    /\ handle = <<>>
    /\ phase = "insert"
    /\ input = <<>>
    /\ out = <<>>

SortInsert ==
    \E key \in Keys :
        /\ phase = "insert"
        /\ Len(input) < MaxLen
        /\ InsertCall(1, key)
        /\ input' = Append(input, key)
        /\ UNCHANGED <<phase, out>>

SortExtract == phase \in {"insert", "drain"} /\ Drain

NextSort == SortInsert \/ SortExtract

SpecSort == InitSort /\ [][NextSort]_vars

\* ------------------------------------------------- build two, merge, drain
\* Heap 1 and then heap 2 are built by insert, extract_min and decrease_key;
\* heap 1 then takes heap 2 in (`input` records the keys live in the two at
\* that moment) and is drained.
Side == IF phase = "buildA" THEN 1 ELSE 2

BuildInsert ==
    \E key \in Keys :
        /\ phase \in {"buildA", "buildB"}
        /\ Len(nodes) < MaxLen
        /\ InsertCall(Side, key)
        /\ UNCHANGED <<phase, input, out>>

\* extract_min while building, as long as few nodes have been created
BuildExtractMin ==
    /\ phase \in {"buildA", "buildB"}
    /\ Len(nodes) <= MaxNodes
    /\ ExtractMin(Side)

\* decrease_key while building, likewise
BuildDecreaseKey ==
    \E node \in 1..MaxNodes, key \in Keys :
        /\ phase \in {"buildA", "buildB"}
        /\ Len(nodes) <= MaxNodes
        /\ DecreaseKey(Side, node, key)

BuildOther ==
    /\ phase = "buildA"
    /\ panic = NoPanic
    /\ phase' = "buildB"
    /\ UNCHANGED <<nodes, heaps, panic, overflow_checks, handle, input, out>>

\* The keys of the nodes ns, in the order of their insertion
RECURSIVE KeysOf(_, _)
KeysOf(ns, n) ==
    IF n > Len(nodes) THEN <<>>
    ELSE (IF n \in ns THEN <<nodes[n].key>> ELSE <<>>) \o KeysOf(ns, n + 1)

MergeBuilt ==
    /\ phase = "buildB"
    /\ panic = NoPanic
    /\ \E oc \in Profiles :
         Commit(MergeOp(Cur(oc), 1, 2), MergeOp(Cur(~oc), 1, 2))
    /\ handle' = Moved(1, 2)
    /\ input' = KeysOf(Handles(1, "live") \cup Handles(2, "live"), 1)
    /\ phase' = "drain"
    /\ UNCHANGED out

\* `while let Some(key) = heap.extract_min() { .. }`: D carries the store,
\* the results of the calls so far and the nodes they took out
RECURSIVE DrainLoop(_, _)
DrainStep(D, R, node, hp) ==
    LET D1 == [S |-> R.S, res |-> Append(D.res, Result(R)),
               val |-> IF R.res = "Some" THEN D.val \cup {node} ELSE D.val]
    IN  IF R.res = "Some" THEN DrainLoop(D1, hp) ELSE D1

DrainLoop(D, hp) == DrainStep(D, ExtractMinOp(D.S, hp), D.S.heaps[hp].min, hp)

DrainAll(S, hp) == DrainLoop([S |-> S, res |-> <<>>, val |-> {}], hp)

RECURSIVE ExtractedAll(_, _, _)
ExtractedAll(hs, gone, n) ==
    IF hs = <<>> THEN <<>>
    ELSE <<IF n \in gone THEN [Head(hs) EXCEPT !.status = "extracted"] ELSE Head(hs)>>
         \o ExtractedAll(Tail(hs), gone, n + 1)

CommitDrainedAll(R, other) ==
    /\ Commit(R, other)
    /\ handle' = ExtractedAll(handle, R.val, 1)
    /\ out' = R.res
    /\ phase' = "done"

DrainMerged ==
    /\ phase = "drain"
    /\ panic = NoPanic
    /\ \E oc \in Profiles :
         CommitDrainedAll(DrainAll(Cur(oc), 1), DrainAll(Cur(~oc), 1))
    /\ UNCHANGED input

InitMerge ==
    /\ nodes = <<>>
    /\ heaps = <<NewHeap, NewHeap>>
    /\ panic = NoPanic
    /\ overflow_checks = "any"
    /\ handle = <<>>
    /\ phase = "buildA"
    /\ input = <<>>
    /\ out = <<>>

NextMerge ==
    \/ BuildInsert
    \/ BuildExtractMin
    \/ BuildDecreaseKey
    \/ BuildOther
    \/ MergeBuilt
    \/ DrainMerged

SpecMerge == InitMerge /\ [][NextMerge]_vars

\* ------------------------------------------------------ scripted runs
\* `input` is a script of calls, `out` the results of the calls made so far.
\* A handle is named by the number of the insert that returned it.
Ins(hp, key) == [op |-> "insert", hp |-> hp, node |-> None, key |-> key]

Ext(hp) == [op |-> "extract_min", hp |-> hp, node |-> None, key |-> None]

Dec(hp, node, key) == [op |-> "decrease_key", hp |-> hp, node |-> node, key |-> key]

Mrg == [op |-> "merge", hp |-> 1, node |-> None, key |-> None]

Ok(val) == [res |-> "Ok", val |-> val]

\* The place of key k in the sequence s
PlaceOf(s, k) == CHOOSE i \in DOMAIN s : s[i] = k

\* The full workflow of the crate documentation with its first three keys
\* being `first` and the next two `second`, in these orders
Workflow(first, second) ==
    <<Ins(1, first[1]), Ins(1, first[2]), Ins(1, first[3]), Ext(1),
      Ins(1, second[1]), Ins(1, second[2]), Ext(1),
      Dec(1, 3 + PlaceOf(second, 40), 2), Dec(1, PlaceOf(first, 30), 1),
      Ext(1), Ext(1), Ext(1)>>

FullWorkflow == Workflow(<<30, 10, 20>>, <<40, 5>>)

\* tests::test_merge_generic, drained to the end
MergeGeneric ==
    <<Ins(1, 10), Ins(1, 20), Ins(2, 5), Ins(2, 15), Mrg,
      Ext(1), Ext(1), Ext(1), Ext(1), Ext(1)>>

\* tests::test_decrease_key_generic
DecreaseKeyGeneric == <<Ins(1, 20), Ins(1, 10), Ext(1), Dec(1, 1, 5), Ext(1)>>

\* tests::test_decrease_key_validation_generic
DecreaseKeyValidationGeneric == <<Ins(1, 10), Dec(1, 1, 15), Dec(1, 1, 5)>>

Orders(ks) == {s \in [1..Cardinality(ks) -> ks] : \A k \in ks : \E i \in DOMAIN s : s[i] = k}

Scripts ==
    {Workflow(first, second) : first \in Orders({30, 10, 20}), second \in Orders({40, 5})}
        \cup {MergeGeneric, DecreaseKeyGeneric, DecreaseKeyValidationGeneric}

\* The call c made on store S
Call(S, c) ==
    CASE c.op = "insert"       -> InsertOp(S, c.hp, c.key)
      [] c.op = "extract_min"  -> ExtractMinOp(S, c.hp)
      [] c.op = "decrease_key" -> DecreaseKeyOp(S, c.hp, c.node, c.key)
      [] c.op = "merge"        -> MergeOp(S, 1, 2)

CommitCall(R, other, c) ==
    /\ Commit(R, other)
    /\ out' = Append(out, Result(R))
    /\ handle' = CASE c.op = "insert"       -> Issued(c.hp)
                    [] c.op = "extract_min"  -> Extracted(R, heaps[c.hp].min)
                    [] c.op = "decrease_key" -> handle
                    [] c.op = "merge"        -> Moved(1, 2)

\* The next call of the script
Step ==
    /\ phase = "script"
    /\ panic = NoPanic
    /\ Len(out) < Len(input)
    /\ \E oc \in Profiles :
         CommitCall(Call(Cur(oc), input[Len(out) + 1]),
                    Call(Cur(~oc), input[Len(out) + 1]), input[Len(out) + 1])
    /\ UNCHANGED <<phase, input>>

InitScript ==
    /\ nodes = <<>>
    /\ heaps = <<NewHeap, NewHeap>>
    /\ panic = NoPanic
    /\ overflow_checks = "any"
    /\ handle = <<>>
    /\ phase = "script"
    /\ input \in Scripts
    /\ out = <<>>

NextScript == Step

SpecScript == InitScript /\ [][NextScript]_vars

\* `out` is `expected` as far as the script has come
Returns(expected) == \A i \in 1..Len(out) : out[i] = expected[i]

\* s with k put before the first element greater than k
RECURSIVE InsertSorted(_, _)
InsertSorted(s, k) ==
    IF s = <<>> THEN <<k>>
    ELSE IF k < Head(s) THEN <<k>> \o s
         ELSE <<Head(s)>> \o InsertSorted(Tail(s), k)

\* s in non-decreasing order
RECURSIVE Ascending(_)
Ascending(s) == IF s = <<>> THEN <<>> ELSE InsertSorted(Ascending(Tail(s)), Head(s))

\* `out` is what draining a heap of the keys `ks` returns so far: the keys
\* in non-decreasing order, then None once they are all out
DrainOf(ks) ==
    /\ Len(out) <= Len(ks) + 1
    /\ \A i \in 1..Len(out) :
         out[i] = IF i <= Len(ks) THEN Some(Ascending(ks)[i]) ELSE [res |-> "None", val |-> None]
    /\ phase = "done" <=> Len(out) = Len(ks) + 1

\* ------------------------------------------------- what the claims speak of
\* The nodes in the trees hanging off the root list of heap hp
RECURSIVE Descend(_, _)
Descend(frontier, seen) ==
    IF frontier \subseteq seen THEN seen
    ELSE Descend(UNION {Range(nodes[n].children) : n \in frontier \ seen},
                 seen \cup frontier)

TreeNodes(hp) == Descend(Range(heaps[hp].root_list), {})

LiveNodes(hp) == Handles(hp, "live")

LeastKey(ns) == CHOOSE k \in {nodes[n].key : n \in ns} : \A m \in ns : k <= nodes[m].key

\* The store as it is, under either build profile
Stores == {Cur(oc) : oc \in Profiles}

\* (C1) peek_min is None iff the heap holds no node, otherwise the least key
\* among the live nodes; `min` is a parentless member of the root list.
PeekMinIsLeastLiveKey ==
    \A hp \in Heaps : \A S \in Stores :
        panic = NoPanic =>
            IF LiveNodes(hp) = {}
            THEN PeekMin(S, hp).res = "None"
            ELSE /\ PeekMin(S, hp) = [res |-> "Some", val |-> LeastKey(LiveNodes(hp))]
                 /\ heaps[hp].min \in Range(heaps[hp].root_list)
                 /\ nodes[heaps[hp].min].parent = None

\* (C2) n keys inserted in any order into an empty heap come out of n
\* extract_min calls in non-decreasing order, and the next call returns None.
ExtractsSortedInput ==
    /\ panic = NoPanic
    /\ phase = "insert" => out = <<>>
    /\ phase \in {"drain", "done"} => DrainOf(input)

\* (C3) decrease_key on a live handle with a key not above the current one
\* returns Ok(()) without panicking, and the node's key is then the new key.
DecreaseKeyCompletes ==
    \A n \in LiveNodes(1) : \A k \in Keys : \A S \in Stores :
        (panic = NoPanic /\ ~Building /\ k <= nodes[n].key) =>
            LET R == DecreaseKeyOp(S, 1, n, k) IN
                /\ R.res = "Ok"
                /\ ~Panicked(R.S)
                /\ R.S.nodes[n].key = k

\* (C4) decrease_key on a live handle with a key above the current one
\* returns Err(InvalidKey) and leaves the whole state as it was.
GreaterKeyIsInvalidKey ==
    \A n \in LiveNodes(1) : \A k \in Keys : \A S \in Stores :
        (panic = NoPanic /\ ~Building /\ k > nodes[n].key) =>
            DecreaseKeyOp(S, 1, n, k) = [S |-> S, res |-> "InvalidKey", val |-> None]

\* (C5) decrease_key on the handle of an extracted node returns
\* Err(NodeNotFound) for every key and changes nothing; `min` never refers
\* to an extracted node.
ExtractedHandleIsNotFound ==
    \A n \in Handles(1, "extracted") : \A k \in Keys : \A S \in Stores :
        (panic = NoPanic /\ ~Building) =>
            /\ DecreaseKeyOp(S, 1, n, k) = [S |-> S, res |-> "NodeNotFound", val |-> None]
            /\ heaps[1].min # n

\* (C6) decrease_key never returns Err(NodeNotFound) for a live handle.
LiveHandleIsFound ==
    \A n \in LiveNodes(1) : \A k \in Keys : \A S \in Stores :
        (panic = NoPanic /\ ~Building) =>
            DecreaseKeyOp(S, 1, n, k).res # "NodeNotFound"

\* (C7) the full workflow: insert 30, 10, 20; extract_min is 10; insert 40
\* and 5; extract_min is 5; decrease_key of the 40 to 2 and of the 30 to 1
\* succeed; the next three extract_min are 1, 2 and 20.
FullWorkflowReturns ==
    input = FullWorkflow =>
        Returns(<<Ok(1), Ok(2), Ok(3), Some(10), Ok(4), Ok(5), Some(5),
                   Ok(None), Ok(None), Some(1), Some(2), Some(20)>>)

\* (C8) after A.merge(B), extract_min until None returns the keys that were
\* live in A and in B, each as often as it was there, in non-decreasing order.
MergeDrainsUnion == phase = "done" => DrainOf(input)

\* (C9) len() is the number of nodes in the trees of the root list.
LenIsTreeSize ==
    \A hp \in Heaps :
        panic = NoPanic => HeapLen(Cur(TRUE), hp) = Cardinality(TreeNodes(hp))

RECURSIVE Fib(_)
Fib(n) == IF n <= 2 THEN 1 ELSE Fib(n - 1) + Fib(n - 2)

\* The nodes of the subtree rooted in n
Subtree(n) == Descend({n}, {})

\* (C11) every node of degree d in the trees of a heap is the root of a
\* subtree of at least F(d + 2) nodes.
FibonacciBound ==
    \A hp \in Heaps : \A n \in TreeNodes(hp) :
        panic = NoPanic =>
            /\ nodes[n].degree >= 0
            /\ Cardinality(Subtree(n)) >= Fib(nodes[n].degree + 2)

\* The nodes in the trees hanging off the root list of heap hp in store S
RECURSIVE DescendIn(_, _, _)
DescendIn(S, frontier, seen) ==
    IF frontier \subseteq seen THEN seen
    ELSE DescendIn(S, UNION {Range(S.nodes[n].children) : n \in frontier \ seen},
                   seen \cup frontier)

TreeNodesIn(S, hp) == DescendIn(S, Range(S.heaps[hp].root_list), {})

\* No two places of the root list of heap hp in store S hold nodes of the
\* same degree (nor, then, the same node)
DistinctDegrees(S, hp) ==
    LET roots == S.heaps[hp].root_list IN
    \A i, j \in DOMAIN roots :
        i # j => S.nodes[roots[i]].degree # S.nodes[roots[j]].degree

\* (C12) an extract_min that leaves heap 1 non-empty leaves a root list in
\* which no two nodes have the same degree, and every root it found, the
\* extracted one apart, is then in the root list or below a node of it.
ConsolidateLeavesDistinctDegrees ==
    \A S \in Stores :
        LET R == ExtractMinOp(S, 1) IN
        (panic = NoPanic /\ ~Building /\ R.res = "Some" /\ ~Panicked(R.S)
            /\ R.S.heaps[1].root_list # <<>>) =>
            /\ DistinctDegrees(R.S, 1)
            /\ Range(S.heaps[1].root_list) \ {S.heaps[1].min} \subseteq TreeNodesIn(R.S, 1)

\* A heap whose extract_min has roots of the same degree to link
RootsToLink ==
    /\ panic = NoPanic
    /\ ~Building
    /\ Len(heaps[1].root_list) >= 3
    /\ heaps[1].min \in Range(heaps[1].root_list)
    /\ ~DistinctDegrees(Cur(TRUE), 1)
    /\ ExtractMinOp(Cur(TRUE), 1).res = "Some"
    /\ Len(ExtractMinOp(Cur(TRUE), 1).S.heaps[1].root_list) = 1

\* =========================================================================
\* The i32 heap of src/lib.rs (FibonacciHeap with node_map), over the same
\* variables: a node has no id, a heap is { min, root_list, node_map } and
\* node_map takes a key to the node last stored under it.
\* =========================================================================
MaxInserts == 5    \* nodes allocated by insert over a whole run of SpecI32
MaxMerged  == 3    \* nodes allocated by insert over a whole run of SpecI32Merge
MaxMerges  == 2    \* merge calls over a whole run of SpecI32Merge
MaxI32Key  == 3    \* keys of the i32 heap are 1..MaxI32Key

I32Keys == 1..MaxI32Key

Greater == "New key is greater than current key!"

\* Node::new
I32NewNode(key) ==
    [key |-> key, degree |-> 0, marked |-> FALSE, parent |-> None, children |-> <<>>]

\* FibonacciHeap::new
I32NewHeap == [min |-> None, root_list |-> <<>>, node_map |-> EmptyMap]

\* HashMap::get: the node stored under key k, None if there is none
MapGet(m, k) == IF ContainsKey(m, k) THEN (CHOOSE e \in m : e[1] = k)[2] ELSE None

\* `self.min = Some(node)` if there is no min or `key` is below the min's key
I32UpdateMin(S, hp, node, key) ==
    IF S.heaps[hp].min = None THEN [S EXCEPT !.heaps[hp].min = node]
    ELSE IF key < S.nodes[S.heaps[hp].min].key
         THEN [S EXCEPT !.heaps[hp].min = node]
         ELSE S

\* FibonacciHeap::insert: returns the node
I32InsertOp(S, hp, key) ==
    LET node == Len(S.nodes) + 1
        S1   == [S EXCEPT !.nodes = Append(@, I32NewNode(key)),
                          !.heaps[hp].root_list = Append(@, node),
                          !.heaps[hp].node_map = MapInsert(@, key, node)]
    IN  [S |-> I32UpdateMin(S1, hp, node, key), res |-> "node", val |-> node]

\* The `if let Some(ref min_node) = other.min` of merge
I32MergeMin(S, hp, o) ==
    LET min_node == S.heaps[o].min IN
    IF min_node = None THEN S
    ELSE I32UpdateMin([S EXCEPT !.heaps[hp].root_list = Append(@, min_node)],
                      hp, min_node, S.nodes[min_node].key)

\* FibonacciHeap::merge(&mut self, other: &mut FibonacciHeap)
I32MergeOp(S, hp, o) ==
    LET S1 == I32MergeMin(S, hp, o)
        S2 == [S1 EXCEPT !.heaps[hp].root_list = @ \o S1.heaps[o].root_list,
                         !.heaps[hp].node_map = MapExtend(@, S1.heaps[o].node_map)]
    IN  [S |-> [S2 EXCEPT !.heaps[o].root_list = <<>>,
                          !.heaps[o].node_map = EmptyMap],
         res |-> "unit", val |-> None]

\* FibonacciHeap::link(node, parent)
I32Link(S, node, parent) ==
    LET S1 == [S EXCEPT !.nodes[node].parent = parent]
        S2 == [S1 EXCEPT !.nodes[parent].children = Append(@, node)]
        S3 == [S2 EXCEPT !.nodes[parent].degree = @ + 1]
    IN  [S3 EXCEPT !.nodes[node].marked = FALSE]

\* The `loop` of consolidate for one node of the original root list.  A
\* wrapped degree (2^64 - 1) makes `degrees.push(None)` run out of memory.
Memory == "memory allocation failed"

RECURSIVE I32LinkLoop(_)
I32LinkLoop(C) ==
    LET degree == C.S.nodes[C.current].degree IN
    IF degree < 0 THEN [C EXCEPT !.S = Panic(C.S, Memory)]
    ELSE LET grown    == IF degree >= Len(C.table)
                         THEN TableResize(C.table, degree + 1) ELSE C.table
             existing == grown[degree + 1]
         IN  IF existing = None
             THEN [C EXCEPT !.table = [grown EXCEPT ![degree + 1] = C.current]]
             ELSE LET taken == [grown EXCEPT ![degree + 1] = None] IN
                  IF C.S.nodes[existing].key < C.S.nodes[C.current].key
                  THEN I32LinkLoop([C EXCEPT !.S = I32Link(C.S, C.current, existing),
                                             !.table = taken, !.current = existing])
                  ELSE I32LinkLoop([C EXCEPT !.S = I32Link(C.S, existing, C.current),
                                             !.table = taken])

\* `for node in original_root_list`, from node number i on
RECURSIVE I32ConsolidateRoots(_, _, _)
I32ConsolidateRoots(C, roots, i) ==
    IF i > Len(roots) \/ Panicked(C.S) THEN C
    ELSE I32ConsolidateRoots(I32LinkLoop([C EXCEPT !.current = roots[i]]), roots, i + 1)

\* iter().min_by_key(|node| key): the first of the nodes with the least key
RECURSIVE MinByKey(_, _, _)
MinByKey(S, roots, best) ==
    IF roots = <<>> THEN best
    ELSE IF best = None THEN MinByKey(S, Tail(roots), Head(roots))
         ELSE IF S.nodes[Head(roots)].key < S.nodes[best].key
              THEN MinByKey(S, Tail(roots), Head(roots))
              ELSE MinByKey(S, Tail(roots), best)

\* The end of consolidate: the root list is rebuilt and the min found
I32Consolidated(C, hp) ==
    IF Panicked(C.S) THEN C.S
    ELSE [C.S EXCEPT !.heaps[hp].root_list = Flatten(C.table),
                     !.heaps[hp].min = MinByKey(C.S, Flatten(C.table), None)]

\* FibonacciHeap::consolidate
I32Consolidate(S, hp) ==
    LET C0 == [S |-> [S EXCEPT !.heaps[hp].root_list = <<>>],
               table |-> <<>>, current |-> None]
    IN  I32Consolidated(I32ConsolidateRoots(C0, S.heaps[hp].root_list, 1), hp)

\* `if self.root_list.is_empty() { self.min = None } else { self.consolidate() }`
I32NewRoots(S, hp) ==
    IF S.heaps[hp].root_list = <<>>
    THEN [S EXCEPT !.heaps[hp].min = None]
    ELSE I32Consolidate(S, hp)

\* FibonacciHeap::extract_min: None, or Some(key of the min node)
I32ExtractMinOp(S, hp) ==
    LET min_node == S.heaps[hp].min IN
    IF min_node = None THEN [S |-> S, res |-> "None", val |-> None]
    ELSE LET S1 == [S EXCEPT !.heaps[hp].min = None,
                             !.nodes[min_node].children = <<>>]
             S2 == PromoteChildren(S1, hp, S.nodes[min_node].children)
             S3 == [S2 EXCEPT !.heaps[hp].root_list = Retain(@, min_node)]
         IN  Returned(I32NewRoots(S3, hp), "Some", S.nodes[min_node].key)

\* FibonacciHeap::cut(node, parent): `parent_borrowed` is held to the end,
\* so node.borrow_mut() panics when node and parent are the same cell
I32Cut(S, hp, node, parent) ==
    LET S1 == [S EXCEPT !.nodes[parent].children = Retain(@, node)] IN
    IF SubOverflows(S1.nodes[parent].degree) /\ S.checks THEN Panic(S1, Overflow)
    ELSE LET S2 == [S1 EXCEPT !.nodes[parent].degree = @ - 1,
                              !.heaps[hp].root_list = Append(@, node)]
         IN  IF node = parent THEN Panic(S2, Borrow)
             ELSE [S2 EXCEPT !.nodes[node].parent = None,
                             !.nodes[node].marked = FALSE]

\* FibonacciHeap::cascading_cut(node)
RECURSIVE I32CascadingCut(_, _, _)
I32CascadingCut(S, hp, node) ==
    LET parent == S.nodes[node].parent IN
    IF Panicked(S) \/ parent = None THEN S
    ELSE IF ~S.nodes[node].marked
         THEN [S EXCEPT !.nodes[node].marked = TRUE]
         ELSE I32CascadingCut(I32Cut(S, hp, node, parent), hp, parent)

\* `if let Some(parent_ref) = parent { if new_key < parent.key { cut; cascading_cut } }`
I32CutIfViolated(S, hp, node, new_key) ==
    LET parent == S.nodes[node].parent IN
    IF parent = None THEN S
    ELSE IF new_key < S.nodes[parent].key
         THEN I32CascadingCut(I32Cut(S, hp, node, parent), hp, parent)
         ELSE S

\* The end of decrease_key: the node moves to its new key in node_map and
\* becomes the min if its key is below the min's
I32Rekey(S, hp, node, node_key, new_key) ==
    IF Panicked(S) THEN S
    ELSE I32UpdateMin([S EXCEPT !.heaps[hp].node_map =
                                    MapInsert(MapRemove(@, node_key), new_key, node)],
                      hp, node, new_key)

\* FibonacciHeap::decrease_key(node_key, new_key)
I32DecreaseKeyOp(S, hp, node_key, new_key) ==
    LET node == MapGet(S.heaps[hp].node_map, node_key) IN
    IF node = None THEN [S |-> S, res |-> "unit", val |-> None]
    ELSE IF new_key > S.nodes[node].key
    THEN [S |-> Panic(S, Greater), res |-> "panic", val |-> None]
    ELSE Returned(I32Rekey(I32CutIfViolated([S EXCEPT !.nodes[node].key = new_key],
                                            hp, node, new_key),
                           hp, node, node_key, new_key),
                  "unit", None)

\* FibonacciHeap::is_empty
I32IsEmpty(S, hp) == S.heaps[hp].root_list = <<>>

\* ---------------------------------------------- the i32 state machine
InitI32 ==
    /\ nodes = <<>>
    /\ heaps = <<I32NewHeap, I32NewHeap>>
    /\ panic = NoPanic
    /\ overflow_checks = "any"
    /\ handle = <<>>
    /\ phase = "i32"
    /\ input = <<>>
    /\ out = <<>>

\* A call on the i32 heap with outcome R (`other` under the other profile)
I32Call(R, other) ==
    /\ phase = "i32"
    /\ panic = NoPanic
    /\ Commit(R, other)
    /\ UNCHANGED <<handle, phase, input, out>>

I32Insert(hp, key) ==
    \E oc \in Profiles :
        I32Call(I32InsertOp(Cur(oc), hp, key), I32InsertOp(Cur(~oc), hp, key))

I32ExtractMin(hp) ==
    \E oc \in Profiles :
        I32Call(I32ExtractMinOp(Cur(oc), hp), I32ExtractMinOp(Cur(~oc), hp))

I32DecreaseKey(hp) ==
    \E node_key \in I32Keys, new_key \in I32Keys, oc \in Profiles :
        I32Call(I32DecreaseKeyOp(Cur(oc), hp, node_key, new_key),
                I32DecreaseKeyOp(Cur(~oc), hp, node_key, new_key))

\* As in Spec, `other` is built and merged before heap 1 is called again
I32Building == heaps[2].root_list # <<>>

I32InsertSelf ==
    \E key \in I32Keys : ~I32Building /\ Len(nodes) < MaxInserts /\ I32Insert(1, key)

I32ExtractMinSelf == ~I32Building /\ I32ExtractMin(1)

I32DecreaseKeySelf == ~I32Building /\ I32DecreaseKey(1)

\* heap1.merge(&mut heap2); `out` collects what the merges returned
I32MergeOther ==
    \E oc \in Profiles :
        /\ Len(out) < MaxMerges
        /\ phase = "i32"
        /\ panic = NoPanic
        /\ Commit(I32MergeOp(Cur(oc), 1, 2), I32MergeOp(Cur(~oc), 1, 2))
        /\ out' = Append(out, Result(I32MergeOp(Cur(oc), 1, 2)))
        /\ UNCHANGED <<handle, phase, input>>

NextI32 ==
    \/ I32InsertSelf
    \/ I32ExtractMinSelf
    \/ I32DecreaseKeySelf

SpecI32 == InitI32 /\ [][NextI32]_vars

\* The same with a second heap, built by inserts and merged into the first
I32InsertMerging ==
    \E key \in I32Keys : ~I32Building /\ Len(nodes) < MaxMerged /\ I32Insert(1, key)

I32InsertOther ==
    \E key \in I32Keys : Len(nodes) < MaxMerged /\ I32Insert(2, key)

NextI32Merge ==
    \/ I32InsertMerging
    \/ I32InsertOther
    \/ I32ExtractMinSelf
    \/ I32DecreaseKeySelf
    \/ I32MergeOther

SpecI32Merge == InitI32 /\ [][NextI32Merge]_vars

\* How often node n is listed in the sequence s
Occurrences(s, n) == Len(SelectSeq(s, LAMBDA x : x = n))

\* (C13) i32 heap: after heap1.merge(&mut heap2) every root of heap2 is
\* listed exactly once in heap1.root_list, and heap2 is empty: no roots, no
\* min, and extract_min on it returns None.
I32MergeMovesEachRootOnce ==
    \A S \in Stores :
        LET R == I32MergeOp(S, 1, 2) IN
        (panic = NoPanic /\ phase = "i32") =>
            /\ \A n \in Range(S.heaps[2].root_list) :
                 Occurrences(R.S.heaps[1].root_list, n) = 1
            /\ R.S.heaps[2].root_list = <<>>
            /\ R.S.heaps[2].min = None
            /\ I32ExtractMinOp(R.S, 2).res = "None"

\* The nodes heap hp holds: those in its trees and those its live handles name
Held(hp) == TreeNodes(hp) \cup LiveNodes(hp)

\* Parent and children of node n of heap hp agree: if n has a parent it is
\* listed once in that parent's children, each of its children names it as
\* parent and is listed once, n is in the root list iff it has no parent and
\* is there at most once, and n is not its own descendant.
Mutual(hp, n) ==
    /\ nodes[n].parent # None =>
           Occurrences(nodes[nodes[n].parent].children, n) = 1
    /\ \A c \in Range(nodes[n].children) :
           nodes[c].parent = n /\ Occurrences(nodes[n].children, c) = 1
    /\ nodes[n].parent = None <=> n \in Range(heaps[hp].root_list)
    /\ Occurrences(heaps[hp].root_list, n) <= 1
    /\ n \notin Descend(Range(nodes[n].children), {})

\* (C14) after every public operation, one ended by a panic included, the
\* parent/child relation of the nodes a heap holds is mutual and unique.
ParentAndChildrenAgree == \A hp \in Heaps : \A n \in Held(hp) : Mutual(hp, n)

\* (C15) the degree of every node a heap holds is the length of its
\* children list.
DegreeIsChildCount ==
    \A hp \in Heaps : \A n \in Held(hp) :
        panic = NoPanic => nodes[n].degree = Len(nodes[n].children)

\* (C16) after every public operation no node of a root list is marked; the
\* children of the extracted minimum are unmarked when extract_min makes
\* them roots.
RootsAreUnmarked ==
    \A hp \in Heaps : \A n \in Range(heaps[hp].root_list) :
        panic = NoPanic => ~nodes[n].marked

\* (C17) after every public operation, one ended by a panic included, the
\* key of every node with a parent is at least the key of that parent.
MinHeapOrder ==
    \A hp \in Heaps : \A n \in Held(hp) :
        nodes[n].parent # None => nodes[n].key >= nodes[nodes[n].parent].key

\* ------------------------------------------------- equal keys, then drained
\* As SpecSort, every key inserted being the same
MaxTies == 15      \* keys inserted over a whole run of SpecTies

TiesInsert ==
    /\ phase = "insert"
    /\ Len(input) < MaxTies
    /\ InsertCall(1, 1)
    /\ input' = Append(input, 1)
    /\ UNCHANGED <<phase, out>>

NextTies == TiesInsert \/ SortExtract

SpecTies == InitSort /\ [][NextTies]_vars

\* (C18) consolidate never indexes the degree table outside its length: no
\* extract_min ends in an index-out-of-bounds panic.
DegreeTableIsLargeEnough ==
    /\ panic # Index
    /\ \A hp \in Heaps : \A S \in Stores :
           panic = NoPanic => ExtractMinOp(S, hp).S.panic # Index

\* decrease_key(n, k) on store S finds no heap-order violation: n is a root
\* or k is not below the key of n's parent
NoViolation(S, n, k) ==
    S.nodes[n].parent = None \/ k >= S.nodes[S.nodes[n].parent].key

\* (C19) a decrease_key that returns Ok without a heap-order violation
\* changes the key of its node and at most `min`, which then is that node:
\* root list, parents, children, degrees, marks, count and the liveness
\* table stay as they were.
DecreaseKeyWithoutCutKeepsShape ==
    \A n \in DOMAIN nodes : \A k \in Keys : \A S \in Stores :
        LET R == DecreaseKeyOp(S, 1, n, k) IN
        (panic = NoPanic /\ ~Building /\ handle[n].heap = 1 /\ R.res = "Ok"
            /\ NoViolation(S, n, k)) =>
            /\ R.S.nodes = [S.nodes EXCEPT ![n].key = k]
            /\ R.S.heaps[1].min \in {S.heaps[1].min, n}
            /\ [R.S.heaps EXCEPT ![1].min = S.heaps[1].min] = S.heaps
            /\ R.S.panic = NoPanic

\* A node below a parent whose key can be lowered without a violation
LowerableChild ==
    \E n \in LiveNodes(1) : \E k \in Keys :
        /\ panic = NoPanic /\ ~Building
        /\ nodes[n].parent # None
        /\ k < nodes[n].key
        /\ NoViolation(Cur(TRUE), n, k)
        /\ DecreaseKeyOp(Cur(TRUE), 1, n, k).res = "Ok"

\* What cut(node, parent) is to make of store S: node out of the parent's
\* children, the parent's degree one lower, node parentless, unmarked and
\* last in the root list
AfterCut(S, hp, node, parent) ==
    [S EXCEPT !.nodes[parent].children = Retain(@, node),
              !.nodes[parent].degree = @ - 1,
              !.nodes[node].parent = None,
              !.nodes[node].marked = FALSE,
              !.heaps[hp].root_list = Append(@, node)]

\* (C20) cut(node, parent), as decrease_key calls it for a node whose new
\* key k is below its parent's, removes node from the parent's children,
\* lowers the parent's degree by one, clears node's parent and mark and
\* appends node to the root list, and changes nothing else.
CutMovesNodeToRootList ==
    \A n \in LiveNodes(1) : \A k \in Keys : \A S \in Stores :
        (panic = NoPanic /\ ~Building /\ nodes[n].parent # None
            /\ k < nodes[nodes[n].parent].key) =>
            Cut([S EXCEPT !.nodes[n].key = k], 1, n, nodes[n].parent, {n})
                = AfterCut([S EXCEPT !.nodes[n].key = k], 1, n, nodes[n].parent)

\* What cascading_cut(x) is to make of store S: nothing when x is a root, a
\* mark on x when x is an unmarked non-root, and otherwise x cut to the root
\* list and the same again for its former parent
RECURSIVE AfterCascade(_, _, _)
AfterCascade(S, hp, x) ==
    LET parent == S.nodes[x].parent IN
    IF parent = None THEN S
    ELSE IF ~S.nodes[x].marked THEN [S EXCEPT !.nodes[x].marked = TRUE]
         ELSE AfterCascade(AfterCut(S, hp, x, parent), hp, parent)

\* (C21) cascading_cut(x) leaves a root x as it is, marks an unmarked
\* non-root x and stops, and cuts a marked non-root x to the root list and
\* goes on with its former parent, so that the walk ends at the first
\* unmarked ancestor, which becomes marked, or at a root.
CascadingCutWalksToUnmarked ==
    \A x \in Held(1) : \A S \in Stores :
        (panic = NoPanic /\ ~Building) =>
            CascadingCut(S, 1, x, {}) = AfterCascade(S, 1, x)

\* merge(other) takes the min of `other` in store S: `other` has one, and
\* self is empty or its min has the strictly greater key
TakesOtherMin(S, hp, o) ==
    IF S.heaps[o].min = None THEN FALSE
    ELSE IF IsEmpty(S, hp) THEN TRUE
         ELSE IF S.heaps[hp].min = None THEN FALSE
              ELSE S.nodes[S.heaps[o].min].key < S.nodes[S.heaps[hp].min].key

\* (C22) merge links nothing and picks the smaller minimum: after
\* self.merge(other) every node has the parent, children, degree, mark and
\* key it had, the root list is self's roots followed by other's roots, and
\* `min` is other's min when self was empty or other's min key is strictly
\* less than self's, and self's min otherwise (on a tie, or when other is
\* empty).
MergeLinksNothing ==
    \A S \in Stores :
        LET R == MergeOp(S, 1, 2) IN
        (panic = NoPanic /\ R.res = "unit") =>
            /\ R.S.nodes = S.nodes
            /\ R.S.heaps[1].root_list = S.heaps[1].root_list \o S.heaps[2].root_list
            /\ R.S.heaps[1].min = IF TakesOtherMin(S, 1, 2) THEN S.heaps[2].min
                                  ELSE S.heaps[1].min

\* Two heaps that both hold nodes, with a tree in self, where the min of
\* `other` has the strictly smaller key and merge makes it the min
MergeTakesSmallerMin ==
    /\ panic = NoPanic
    /\ heaps[1].min # None /\ heaps[2].min # None
    /\ \E n \in LiveNodes(1) : nodes[n].parent # None
    /\ nodes[heaps[2].min].key < nodes[heaps[1].min].key
    /\ MergeOp(Cur(TRUE), 1, 2).S.heaps[1].min = heaps[2].min

\* Two heaps whose minimums have equal keys: merge keeps the min of self
MergeTieKeepsSelfMin ==
    /\ panic = NoPanic
    /\ heaps[1].min # None /\ heaps[2].min # None
    /\ nodes[heaps[2].min].key = nodes[heaps[1].min].key
    /\ MergeOp(Cur(TRUE), 1, 2).S.heaps[1].min = heaps[1].min

\* (C23) insert returns Ok with a handle to a new node of degree 0 that is
\* unmarked, has no parent and no children and is last in the root list;
\* `min` moves to the new node only if the heap was empty or the new key is
\* strictly less than the key of the min (on an equal key the min stays);
\* no node that existed is modified.
InsertAddsIsolatedRoot ==
    \A hp \in Heaps : \A key \in Keys : \A S \in Stores :
        LET R    == InsertOp(S, hp, key)
            node == Len(S.nodes) + 1
            h    == S.heaps[hp]
        IN  panic = NoPanic =>
            /\ R.res = "Ok" /\ R.val = node /\ R.S.panic = NoPanic
            /\ R.S.nodes = Append(S.nodes, NewNode(key, R.S.nodes[node].id))
            /\ R.S.heaps[hp].root_list = Append(h.root_list, node)
            /\ R.S.heaps[hp].min =
                  IF IsEmpty(S, hp) THEN node
                  ELSE IF h.min = None THEN None
                       ELSE IF key < S.nodes[h.min].key THEN node ELSE h.min
            /\ \A o \in Heaps \ {hp} : R.S.heaps[o] = S.heaps[o]

\* A heap with a tree whose min has a key above the least key: an insert of
\* the least key moves `min`, an insert of the min's key does not
InsertBelowMin ==
    /\ panic = NoPanic
    /\ heaps[1].min # None
    /\ \E n \in LiveNodes(1) : nodes[n].parent # None
    /\ nodes[heaps[1].min].key > 1
    /\ InsertOp(Cur(TRUE), 1, 1).S.heaps[1].min = Len(nodes) + 1
    /\ InsertOp(Cur(TRUE), 1, nodes[heaps[1].min].key).S.heaps[1].min = heaps[1].min

\* The store on which extract_min calls consolidate: the children of the
\* min promoted, the min taken off the root list and off the count
BeforeConsolidate(S, hp) ==
    LET min_node == S.heaps[hp].min
        S1 == [S EXCEPT !.heaps[hp].min = None,
                        !.heaps[hp].active_nodes = MapRemove(@, S.nodes[min_node].id),
                        !.nodes[min_node].children = <<>>]
        S2 == PromoteChildren(S1, hp, S.nodes[min_node].children)
    IN  [S2 EXCEPT !.heaps[hp].root_list = Retain(@, min_node),
                   !.heaps[hp].node_count = @ - 1]

\* The linking loop of consolidate for the root `current` when the slot of
\* its degree holds `existing` and every other slot is empty; the marks of
\* the two roots are ma and mb
MeetInSlot(S, hp, existing, current, ma, mb) ==
    LinkLoop([S |-> [S EXCEPT !.heaps[hp].root_list = <<>>,
                              !.nodes[existing].marked = ma,
                              !.nodes[current].marked = mb],
              table |-> [NoneSeq(Log2AsUsize(S.heaps[hp].node_count) + 2)
                            EXCEPT ![S.nodes[existing].degree + 1] = existing],
              new_min |-> None, current |-> current, oob |-> FALSE], hp)

\* Two different roots of the same degree, for which the table has a slot
SameDegreeRoots(S, hp, a, b) ==
    /\ a # b
    /\ S.nodes[a].degree = S.nodes[b].degree
    /\ S.nodes[a].degree >= 0
    /\ S.nodes[a].degree < Log2AsUsize(S.heaps[hp].node_count) + 2

\* (C24) when consolidate meets two roots of equal degree, the one with the
\* strictly larger key becomes a child of the other, and with equal keys the
\* later-processed root (`current`) becomes the child of the root already
\* in the slot (`existing`); the child gets the parent, loses its mark and
\* is appended to the parent's children, the parent's degree grows by one,
\* and nothing else changes.
ConsolidateLinksLargerUnderSmaller ==
    \A S \in Stores :
        (panic = NoPanic /\ heaps[1].min # None /\ ExtractMinOp(S, 1).res = "Some") =>
            LET B == BeforeConsolidate(S, 1) IN
            \A existing, current \in Range(B.heaps[1].root_list) : \A ma, mb \in BOOLEAN :
                SameDegreeRoots(B, 1, existing, current) =>
                    LET C      == MeetInSlot(B, 1, existing, current, ma, mb)
                        ahead  == B.nodes[current].key < B.nodes[existing].key
                        child  == IF ahead THEN existing ELSE current
                        parent == IF ahead THEN current ELSE existing
                        B1     == [B EXCEPT !.heaps[1].root_list = <<>>,
                                            !.nodes[existing].marked = ma,
                                            !.nodes[current].marked = mb]
                    IN  /\ ~C.oob
                        /\ C.current = parent
                        /\ C.S.nodes[child].key >= C.S.nodes[parent].key
                        /\ C.S = [B1 EXCEPT !.nodes[child].parent = parent,
                                            !.nodes[child].marked = FALSE,
                                            !.nodes[parent].children = Append(@, child),
                                            !.nodes[parent].degree = B.nodes[parent].degree + 1]

\* An extract_min whose consolidate finds two trees of the same degree, at
\* least 1, with equal keys, and two roots of the same degree with
\* different keys
EqualDegreeTrees ==
    /\ panic = NoPanic
    /\ heaps[1].min # None
    /\ ExtractMinOp(Cur(TRUE), 1).res = "Some"
    /\ LET B == BeforeConsolidate(Cur(TRUE), 1) IN
       \E a, b, c, d \in Range(B.heaps[1].root_list) :
           /\ SameDegreeRoots(B, 1, a, b) /\ B.nodes[a].degree >= 1
           /\ B.nodes[a].key = B.nodes[b].key
           /\ SameDegreeRoots(B, 1, c, d)
           /\ B.nodes[c].key < B.nodes[d].key

\* The number of ancestors of node n in store S, found by following
\* `parent` from n; -1 if the chain comes back to a node it has passed
RECURSIVE Ancestors(_, _, _)
Ancestors(S, n, seen) ==
    LET parent == S.nodes[n].parent IN
    IF parent = None THEN Cardinality(seen)
    ELSE IF parent \in seen \cup {n} THEN 0 - 1
         ELSE Ancestors(S, parent, seen \cup {n})

\* The calls of cut that cascading_cut(node) makes, counted as far as `fuel`
\* calls of cascading_cut go: fuel + 1 if the walk has not ended by then
RECURSIVE CutSteps(_, _, _, _, _)
CutSteps(S, hp, node, borrowed, fuel) ==
    LET parent == S.nodes[node].parent
        held   == borrowed \cup {node}
    IN  IF Panicked(S) \/ parent = None \/ ~S.nodes[node].marked THEN 0
        ELSE IF fuel = 0 THEN 1
             ELSE 1 + CutSteps(Cut(S, hp, node, parent, held), hp, parent, held, fuel - 1)

\* One turn of the `while let Some(existing) = degree_table[degree].take()`
\* loop of consolidate, entered with a root in the slot of current's degree
LinkOnce(C, hp) ==
    LET degree   == C.S.nodes[C.current].degree
        existing == C.table[degree + 1]
        taken    == [C.table EXCEPT ![degree + 1] = None]
        curLess  == C.S.nodes[C.current].key < C.S.nodes[existing].key
        S1  == IF curLess THEN Link(C.S, hp, existing, C.current)
                          ELSE Link(C.S, hp, C.current, existing)
        cur == IF curLess THEN C.current ELSE existing
        d1  == S1.nodes[cur].degree
    IN  [C EXCEPT !.S = S1, !.current = cur,
                  !.table = IF d1 >= Len(taken) THEN TableResize(taken, d1 + 1) ELSE taken]

\* The turns that loop takes for `current`, counted as far as `fuel` turns
\* go: fuel + 1 if the loop has not ended by then
RECURSIVE LinkSteps(_, _, _)
LinkSteps(C, hp, fuel) ==
    LET degree == C.S.nodes[C.current].degree IN
    IF degree < 0 \/ degree >= Len(C.table) THEN 0
    ELSE IF C.table[degree + 1] = None THEN 0
         ELSE IF fuel = 0 THEN 1
              ELSE 1 + LinkSteps(LinkOnce(C, hp), hp, fuel - 1)

\* In the `for root in roots` loop of consolidate, from root number i on,
\* the linking loop of each root ends within as many turns as roots were
\* processed before it
RECURSIVE LinkLoopsEnd(_, _, _, _)
LinkLoopsEnd(C, hp, roots, i) ==
    \/ i > Len(roots)
    \/ C.oob
    \/ /\ LinkSteps([C EXCEPT !.current = roots[i]], hp, Len(roots)) <= i - 1
       /\ LinkLoopsEnd(NewMin(LinkLoop([C EXCEPT !.current = roots[i]], hp)),
                       hp, roots, i + 1)

\* (C25) cascading_cut ends: the parent chain of every node is finite and
\* free of cycles, and the walk from any node, whatever the marks on it and
\* on its parent, makes at most as many calls of cut as the node has
\* ancestors; and in every consolidate the linking loop of every root ends.
CascadingCutAndLinkingEnd ==
    \A S \in Stores :
        /\ \A x \in DOMAIN nodes :
              /\ Ancestors(S, x, {}) >= 0
              /\ \A mx, mp \in BOOLEAN :
                    LET p  == IF nodes[x].parent = None THEN x ELSE nodes[x].parent
                        S1 == [S EXCEPT !.nodes[x].marked = mx]
                        S2 == [S1 EXCEPT !.nodes[p].marked = IF p = x THEN mx ELSE mp]
                    IN  CutSteps([S2 EXCEPT !.panic = NoPanic], 1, x, {}, Len(nodes))
                            <= Ancestors(S, x, {})
        /\ (panic = NoPanic /\ heaps[1].min # None /\ ExtractMinOp(S, 1).res = "Some") =>
              LET B == BeforeConsolidate(S, 1) IN
              LinkLoopsEnd([S |-> [B EXCEPT !.heaps[1].root_list = <<>>],
                            table |-> NoneSeq(Log2AsUsize(B.heaps[1].node_count) + 2),
                            new_min |-> None, current |-> None, oob |-> FALSE],
                           1, B.heaps[1].root_list, 1)

\* A node with at least two ancestors, in a heap whose extract_min has a
\* consolidate that links one of its roots twice in a row
DeepNodeAndRootsToLink ==
    /\ panic = NoPanic
    /\ heaps[1].min # None
    /\ \E x \in LiveNodes(1) : Ancestors(Cur(TRUE), x, {}) >= 2
    /\ ExtractMinOp(Cur(TRUE), 1).res = "Some"
    /\ LET B     == BeforeConsolidate(Cur(TRUE), 1)
           roots == B.heaps[1].root_list
           C0    == [S |-> [B EXCEPT !.heaps[1].root_list = <<>>],
                     table |-> NoneSeq(Log2AsUsize(B.heaps[1].node_count) + 2),
                     new_min |-> None, current |-> None, oob |-> FALSE]
       IN  \E i \in DOMAIN roots :
               LET C == ConsolidateRoots(C0, 1, SubSeq(roots, 1, i - 1), 1) IN
               /\ ~C.oob
               /\ LinkSteps([C EXCEPT !.current = roots[i]], 1, Len(roots)) >= 2

\* (C26) the liveness table agrees with the heap: the live nodes of a heap
\* have pairwise different ids, the keys of active_nodes are exactly the ids
\* of the live nodes, and their number is len().
LivenessTableAgrees ==
    \A hp \in Heaps : \A S \in Stores :
        panic = NoPanic =>
            /\ \A a, b \in LiveNodes(hp) : a # b => nodes[a].id # nodes[b].id
            /\ MapKeys(heaps[hp].active_nodes) = {nodes[n].id : n \in LiveNodes(hp)}
            /\ Cardinality(MapKeys(heaps[hp].active_nodes)) = HeapLen(S, hp)

\* (C27) after clear(), decrease_key on a handle issued before the clear
\* returns Err(NodeNotFound) for every key, also after later inserts, and
\* changes nothing: no key, and not `min`.
ClearedHandleIsNotFound ==
    \A n \in Handles(1, "cleared") : \A k \in Keys : \A S \in Stores :
        (panic = NoPanic /\ ~Building) =>
            DecreaseKeyOp(S, 1, n, k) = [S |-> S, res |-> "NodeNotFound", val |-> None]

\* (C28) the three emptiness observers agree in every state: is_empty()
\* holds iff len() is 0 iff peek_min() is None.
EmptinessObserversAgree ==
    \A hp \in Heaps : \A S \in Stores :
        panic = NoPanic =>
            /\ IsEmpty(S, hp) <=> HeapLen(S, hp) = 0
            /\ IsEmpty(S, hp) <=> PeekMin(S, hp).res = "None"

====
